---------------------------- MODULE Spec2Model ----------------------------
(***************************************************************************)
(* Model of the App component of aws-healthscribe-frontend/src/App.jsx:    *)
(* its five useState cells, the two async handlers handleTranscription and *)
(* handleQuestionAnswer, the two buttons that trigger them, the inputs     *)
(* that set selectedAudio and question, and the backend that settles the   *)
(* promises returned by axios.post.                                        *)
(*                                                                         *)
(* A handler runs in two atomic steps, as JavaScript runs it: the part up  *)
(* to the await (validation, setLoading(true), axios.post) and, once the   *)
(* promise is settled, the continuation (try body or catch, then finally). *)
(*                                                                         *)
(* Two specifications:                                                     *)
(*   Spec       the handlers are invoked by the buttons only, which React  *)
(*              disables as the code says (the page as a user drives it);  *)
(*   SpecCalls  the handlers are invoked directly, whatever the buttons'   *)
(*              state (a test or a programmatic caller).                   *)
(***************************************************************************)
EXTENDS Naturals, FiniteSets, Sequences, TLC

\* Bound on the number of axios.post calls of one run.
MaxRequests == 3

----------------------------------------------------------------------------
(* JavaScript values, as far as the component distinguishes them: null,    *)
(* undefined, strings, and objects (a set of <<key, string value>> pairs). *)

Null == [t |-> "null", s |-> "", f |-> {}]
Undefined == [t |-> "undefined", s |-> "", f |-> {}]
Str(x) == [t |-> "string", s |-> x, f |-> {}]
Obj(fields) == [t |-> "object", s |-> "", f |-> fields]

\* ToBoolean, as `!x` and `x &&` use it.
Truthy(v) ==
    CASE v.t = "null" -> FALSE
      [] v.t = "undefined" -> FALSE
      [] v.t = "string" -> v.s # ""
      [] v.t = "object" -> TRUE

\* Reading v.k throws a TypeError exactly when v is null or undefined.
PropThrows(v) == v.t \in {"null", "undefined"}

\* v.k for a v that has properties: the field's value, or undefined.
GetProp(v, k) ==
    IF v.t = "object" /\ \E p \in v.f : p[1] = k
    THEN Str((CHOOSE p \in v.f : p[1] = k)[2])
    ELSE Undefined

----------------------------------------------------------------------------
\* The three radio options; they all carry the same url.
audioFiles ==
    << [label |-> "Audio File 1", url |-> "s3://dax-health-transcribe/Sample_data.mp3"],
       [label |-> "Audio File 2", url |-> "s3://dax-health-transcribe/Sample_data.mp3"],
       [label |-> "Audio File 3", url |-> "s3://dax-health-transcribe/Sample_data.mp3"] >>

TranscriptionUrl == "http://localhost:5000/start-transcription"
QuestionUrl == "http://localhost:5000/question-ans"

AlertNoAudio == "Please select an audio file."
AlertTranscriptionFailed == "Failed to process the audio file."
AlertNoQuestion == "Please complete transcription and enter a question."
AlertAnswerFailed == "Failed to fetch the answer."
NoAlert == ""

\* What the user may type into the question input.
QuestionTexts == {"", "What medication?"}

\* Bodies a 2xx response of /start-transcription may carry (response.data):
\* a JSON object, possibly empty, a JSON null, an empty body (axios gives "").
TranscriptionBodies ==
    { Obj({<<"status", "done">>, <<"text", "hello">>}),
      Obj({<<"status", "done">>, <<"text", "bye">>}),
      Obj({}),
      Null,
      Str("") }

\* Bodies a 2xx response of /question-ans may carry.
AnswerBodies ==
    { Obj({<<"answer", "Ibuprofen">>}),
      Obj({<<"answer", "">>}),
      Obj({}),
      Null }

----------------------------------------------------------------------------
VARIABLES
    selectedAudio,    \* useState("")
    question,         \* useState("")
    answer,           \* useState("")
    summary,          \* useState(null)
    loading,          \* useState(false)
    pending,          \* the axios.post promises not settled yet
    sent,             \* number of axios.post calls made so far
    event,            \* observation of the last step: what ran, the alert it
                      \* raised, the request it settled and the data received
    calledWhileBusy   \* history: a handler passed validation while loading

vars == <<selectedAudio, question, answer, summary, loading, pending, sent,
          event, calledWhileBusy>>

Event(op, alert, id, data) == [op |-> op, alert |-> alert, id |-> id, data |-> data]

Init ==
    /\ selectedAudio = Str("")
    /\ question = Str("")
    /\ answer = Str("")
    /\ summary = Null
    /\ loading = FALSE
    /\ pending = {}
    /\ sent = 0
    /\ event = Event("init", NoAlert, 0, Null)
    /\ calledWhileBusy = FALSE

----------------------------------------------------------------------------
\* Variant of axiosPost: the request is posted twice.
axiosPostTwice(url, data) ==
    /\ sent < MaxRequests
    /\ sent' = sent + 2
    /\ pending' = pending \cup
          {[id |-> i, url |-> url, data |-> data,
            prior |-> [summary |-> summary, answer |-> answer]] : i \in {sent + 1, sent + 2}}

\* axios.post(url, data): one request goes out; its promise stays pending
\* until the backend settles it.  `prior` records summary and answer as they
\* were when the handler was invoked (an observation, not program state).
axiosPost(url, data) ==
    /\ sent < MaxRequests
    /\ sent' = sent + 1
    /\ pending' = pending \cup
          {[id |-> sent + 1, url |-> url, data |-> data,
            prior |-> [summary |-> summary, answer |-> answer]]}

\* Variant of invalidTranscription: the check is missing.
neverInvalidTranscription == FALSE

\* if (!selectedAudio)
invalidTranscription == ~Truthy(selectedAudio)

\* Variant of invalidQuestion: only the question is checked.
invalidQuestionOnly == ~Truthy(question)

\* if (!summary || !question)
invalidQuestion == ~Truthy(summary) \/ ~Truthy(question)

\* handleTranscription, up to the await.
handleTranscription ==
    IF invalidTranscription
    THEN /\ event' = Event("handleTranscription", AlertNoAudio, 0, Null)
         /\ UNCHANGED <<selectedAudio, question, answer, summary, loading,
                        pending, sent, calledWhileBusy>>
    ELSE /\ loading' = TRUE
         /\ axiosPost(TranscriptionUrl, Obj({<<"audioUrl", selectedAudio.s>>}))
         /\ event' = Event("handleTranscription", NoAlert, sent + 1, Null)
         /\ calledWhileBusy' = (calledWhileBusy \/ loading)
         /\ UNCHANGED <<selectedAudio, question, answer, summary>>

\* handleQuestionAnswer, up to the await.
handleQuestionAnswer ==
    IF invalidQuestion
    THEN /\ event' = Event("handleQuestionAnswer", AlertNoQuestion, 0, Null)
         /\ UNCHANGED <<selectedAudio, question, answer, summary, loading,
                        pending, sent, calledWhileBusy>>
    ELSE /\ loading' = TRUE
         /\ axiosPost(QuestionUrl, Obj({<<"question", question.s>>}))
         /\ event' = Event("handleQuestionAnswer", NoAlert, sent + 1, Null)
         /\ calledWhileBusy' = (calledWhileBusy \/ loading)
         /\ UNCHANGED <<selectedAudio, question, answer, summary>>

\* disabled={!selectedAudio || loading}
startButtonDisabled == ~Truthy(selectedAudio) \/ loading

\* Variant of answerButtonDisabled: loading does not disable the button.
answerButtonIgnoresLoading == ~Truthy(question)

\* disabled={!question || loading}
answerButtonDisabled == ~Truthy(question) \/ loading

----------------------------------------------------------------------------
\* The continuations of the handlers, run when the promise of request r is
\* settled: the rest of the try block or the catch block, then finally.

\* Variant of transcriptionTry: the response is merged into the old summary.
transcriptionTryMerge(r, data) ==
    /\ summary' = IF summary.t = "object" /\ data.t = "object"
                  THEN Obj(summary.f \cup data.f)
                  ELSE data
    /\ event' = Event("transcriptionResolved", NoAlert, r.id, data)

\* try of handleTranscription after the await: setSummary(response.data)
transcriptionTry(r, data) ==
    /\ summary' = data
    /\ event' = Event("transcriptionResolved", NoAlert, r.id, data)

\* Variant of transcriptionCatch: a failure clears the summary.
transcriptionCatchClears(r) ==
    /\ summary' = Null
    /\ event' = Event("transcriptionRejected", AlertTranscriptionFailed, r.id, Null)

\* catch of handleTranscription: console.error, alert
transcriptionCatch(r) ==
    /\ summary' = summary
    /\ event' = Event("transcriptionRejected", AlertTranscriptionFailed, r.id, Null)

\* Variant of transcriptionFinally: loading is not cleared.
transcriptionNoFinally == loading' = loading

\* finally of handleTranscription: setLoading(false)
transcriptionFinally == loading' = FALSE

\* try of handleQuestionAnswer after the await: setAnswer(response.data.answer)
answerTry(r, data) ==
    /\ answer' = GetProp(data, "answer")
    /\ event' = Event("answerResolved", NoAlert, r.id, data)

\* Variant of answerCatch: a failure clears the answer.
answerCatchClears(op, r, data) ==
    /\ answer' = Str("")
    /\ event' = Event(op, AlertAnswerFailed, r.id, data)

\* catch of handleQuestionAnswer: console.error, alert.  It also catches the
\* TypeError of response.data.answer, so op is the way the promise settled.
answerCatch(op, r, data) ==
    /\ answer' = answer
    /\ event' = Event(op, AlertAnswerFailed, r.id, data)

\* Variant of answerFinally: loading is not cleared.
answerNoFinally == loading' = loading

\* finally of handleQuestionAnswer: setLoading(false)
answerFinally == loading' = FALSE

\* The backend answers /start-transcription with a 2xx response carrying data.
TranscriptionResolved(r, data) ==
    /\ r.url = TranscriptionUrl
    /\ pending' = pending \ {r}
    /\ transcriptionTry(r, data)
    /\ transcriptionFinally
    /\ UNCHANGED <<selectedAudio, question, answer, sent, calledWhileBusy>>

\* The request to /start-transcription fails (transport error, non-2xx).
TranscriptionRejected(r) ==
    /\ r.url = TranscriptionUrl
    /\ pending' = pending \ {r}
    /\ transcriptionCatch(r)
    /\ transcriptionFinally
    /\ UNCHANGED <<selectedAudio, question, answer, sent, calledWhileBusy>>

\* The backend answers /question-ans with a 2xx response carrying data.
AnswerResolved(r, data) ==
    /\ r.url = QuestionUrl
    /\ pending' = pending \ {r}
    /\ IF PropThrows(data)
       THEN answerCatch("answerResolved", r, data)
       ELSE answerTry(r, data)
    /\ answerFinally
    /\ UNCHANGED <<selectedAudio, question, summary, sent, calledWhileBusy>>

\* The request to /question-ans fails.
AnswerRejected(r) ==
    /\ r.url = QuestionUrl
    /\ pending' = pending \ {r}
    /\ answerCatch("answerRejected", r, Null)
    /\ answerFinally
    /\ UNCHANGED <<selectedAudio, question, summary, sent, calledWhileBusy>>

----------------------------------------------------------------------------
\* The user's actions.

\* onChange of a radio input: setSelectedAudio(file.url)
SelectAudio(i) ==
    /\ selectedAudio' = Str(audioFiles[i].url)
    /\ event' = Event("selectAudio", NoAlert, 0, Null)
    /\ UNCHANGED <<question, answer, summary, loading, pending, sent, calledWhileBusy>>

\* onChange of the text input: setQuestion(e.target.value)
TypeQuestion(text) ==
    /\ question # Str(text)
    /\ question' = Str(text)
    /\ event' = Event("typeQuestion", NoAlert, 0, Null)
    /\ UNCHANGED <<selectedAudio, answer, summary, loading, pending, sent, calledWhileBusy>>

\* onClick of the Start Transcription button; a disabled button has no clicks.
ClickStartTranscription ==
    /\ ~startButtonDisabled
    /\ handleTranscription

\* onClick of the Get Answer button.
ClickGetAnswer ==
    /\ ~answerButtonDisabled
    /\ handleQuestionAnswer

\* The handlers invoked directly, whatever the buttons' state.
CallHandleTranscription == handleTranscription

CallHandleQuestionAnswer == handleQuestionAnswer

----------------------------------------------------------------------------
UserInput ==
    \/ \E i \in 1..Len(audioFiles) : SelectAudio(i)
    \/ \E text \in QuestionTexts : TypeQuestion(text)

\* The backend settles one pending request, with success or with failure.
Settle ==
    \/ \E r \in pending : \E data \in TranscriptionBodies : TranscriptionResolved(r, data)
    \/ \E r \in pending : TranscriptionRejected(r)
    \/ \E r \in pending : \E data \in AnswerBodies : AnswerResolved(r, data)
    \/ \E r \in pending : AnswerRejected(r)

Next ==
    \/ UserInput
    \/ ClickStartTranscription
    \/ ClickGetAnswer
    \/ Settle

Spec == Init /\ [][Next]_vars

\* The backend eventually answers every request.
FairSpec == Spec /\ WF_vars(Settle)

NextCalls ==
    \/ UserInput
    \/ CallHandleTranscription
    \/ CallHandleQuestionAnswer
    \/ Settle

SpecCalls == Init /\ [][NextCalls]_vars

----------------------------------------------------------------------------
(* Properties.                                                             *)

SettledOps == {"transcriptionResolved", "transcriptionRejected",
               "answerResolved", "answerRejected"}

\* C1 (as stated): in every reachable state, for every interleaving of
\* handler invocations and backend responses, loading is true exactly when
\* at least one request is outstanding.
BusyIffOutstanding == loading <=> (pending # {})

\* C1 (amended): for every interleaving of handler invocations and backend
\* responses, loading is true only while at least one request is outstanding
\* (it is false once all are completed, whatever their outcome), and as long
\* as no handler was invoked while loading it is true exactly when a request
\* is outstanding.
BusyOnlyWhileOutstanding ==
    /\ loading => pending # {}
    /\ ~calledWhileBusy => (loading <=> (pending # {}))

\* Overlapping requests have all completed, the last one by a failure, and
\* loading is not stuck.
BusyReleasedAfterOverlap ==
    /\ calledWhileBusy
    /\ pending = {}
    /\ ~loading
    /\ event.op \in {"transcriptionRejected", "answerRejected"}

\* C2: when the handlers are triggered by the buttons, both buttons are
\* disabled whenever loading is true, and at most one request is outstanding.
ButtonsMutuallyExclusive ==
    /\ loading => (startButtonDisabled /\ answerButtonDisabled)
    /\ Cardinality(pending) <= 1

\* A request is outstanding while both buttons have what they need but loading.
BothButtonsHeldByLoading ==
    /\ loading
    /\ Cardinality(pending) = 1
    /\ Truthy(selectedAudio)
    /\ Truthy(question)
    /\ Truthy(summary)

\* C3: handleTranscription invoked with selectedAudio unset alerts the user,
\* issues no request and leaves loading, summary and answer unchanged.
NoAudioNoRequest ==
    [][(event'.op = "handleTranscription" /\ selectedAudio = Str(""))
         => /\ event'.alert = AlertNoAudio
            /\ sent' = sent
            /\ pending' = pending
            /\ loading' = loading
            /\ summary' = summary
            /\ answer' = answer]_vars

\* handleTranscription has just refused to run for lack of a selection.
TranscriptionRefused ==
    /\ event.op = "handleTranscription"
    /\ event.alert = AlertNoAudio
    /\ selectedAudio = Str("")

\* C4: handleQuestionAnswer invoked with summary unset or question empty
\* alerts the user, issues no request and leaves loading, summary and answer
\* unchanged.
NoSummaryOrQuestionNoRequest ==
    [][(event'.op = "handleQuestionAnswer" /\ (summary = Null \/ question = Str("")))
         => /\ event'.alert = AlertNoQuestion
            /\ sent' = sent
            /\ pending' = pending
            /\ loading' = loading
            /\ summary' = summary
            /\ answer' = answer]_vars

\* handleQuestionAnswer has just refused a non-empty question for lack of a
\* summary.
QuestionRefusedWithoutSummary ==
    /\ event.op = "handleQuestionAnswer"
    /\ event.alert = AlertNoQuestion
    /\ summary = Null
    /\ Truthy(question)

\* C5: when a transcription request fails, the failure is reported, summary
\* has the value it had when the handler was invoked, answer is unchanged and
\* loading ends false.
TranscriptionFailureKeepsSummary ==
    [][event'.op = "transcriptionRejected"
         => /\ event'.alert = AlertTranscriptionFailed
            /\ \A r \in pending : r.id = event'.id =>
                  /\ summary' = r.prior.summary
                  /\ answer' = r.prior.answer
            /\ answer' = answer
            /\ loading' = FALSE]_vars

\* A transcription request has just failed while an earlier summary was held.
TranscriptionFailedWithSummary ==
    /\ event.op = "transcriptionRejected"
    /\ summary = Obj({<<"status", "done">>, <<"text", "hello">>})
    /\ ~loading

\* C6: when a transcription request succeeds, summary becomes exactly the
\* response body, answer is not altered, and the response is that of the
\* latest invocation: summary holds that response alone, whatever it held.
SummaryIsLatestResponse ==
    [][event'.op = "transcriptionResolved"
         => /\ summary' = event'.data
            /\ answer' = answer
            /\ event'.id = sent
            /\ \A r \in pending : r.id = event'.id => answer' = r.prior.answer]_vars

\* The third request, a transcription, has succeeded with an empty object,
\* after an earlier transcription (with a non-empty summary) and an answer.
SummaryOverwritten ==
    /\ event.op = "transcriptionResolved"
    /\ event.id = 3
    /\ answer = Str("Ibuprofen")
    /\ summary = Obj({})

\* C7 (as stated): on a successful response answer becomes the response's
\* answer field; on a failed request the failure is reported and answer keeps
\* its value; in both outcomes summary is unchanged and loading ends false.
AnswerSetOnEverySuccess ==
    [][/\ event'.op = "answerResolved"
            => /\ event'.alert = NoAlert
               /\ answer' = GetProp(event'.data, "answer")
       /\ event'.op = "answerRejected"
            => /\ event'.alert = AlertAnswerFailed
               /\ answer' = answer
       /\ event'.op \in {"answerResolved", "answerRejected"}
            => /\ summary' = summary
               /\ loading' = FALSE]_vars

\* C7 (amended): on a successful response whose body is neither null nor
\* undefined answer becomes the body's answer field (undefined when it has
\* none); on a failed request, and on a successful response whose body is
\* null or undefined, the failure is reported and answer keeps the value it
\* had at the invocation; in all outcomes summary is unchanged and loading
\* ends false.
AnswerSetOnReadableSuccess ==
    [][/\ (event'.op = "answerResolved" /\ ~PropThrows(event'.data))
            => /\ event'.alert = NoAlert
               /\ answer' = GetProp(event'.data, "answer")
       /\ (event'.op = "answerRejected"
             \/ (event'.op = "answerResolved" /\ PropThrows(event'.data)))
            => /\ event'.alert = AlertAnswerFailed
               /\ answer' = answer
               /\ \A r \in pending : r.id = event'.id => answer' = r.prior.answer
       /\ event'.op \in {"answerResolved", "answerRejected"}
            => /\ summary' = summary
               /\ \A r \in pending : r.id = event'.id => summary' = r.prior.summary
               /\ loading' = FALSE]_vars

\* A successful response with a null body has been reported as a failure,
\* and the earlier answer is still there.
NullAnswerBodyReported ==
    /\ event.op = "answerResolved"
    /\ event.data = Null
    /\ event.alert = AlertAnswerFailed
    /\ answer = Str("Ibuprofen")
    /\ ~loading

\* C8: if the backend eventually answers every request, loading = TRUE is
\* always followed by loading = FALSE, and loading is cleared only by the
\* step that observes the completion of an outstanding request.
BusyEventuallyCleared ==
    /\ loading ~> ~loading
    /\ [][(loading /\ ~loading')
            => /\ event'.op \in SettledOps
               /\ \E r \in pending : r.id = event'.id /\ pending' = pending \ {r}]_vars

\* A question request has failed and loading is cleared.
BusyClearedAfterFailure ==
    /\ event.op = "answerRejected"
    /\ ~loading
    /\ pending = {}

\* C9: right after a transcription request has completed successfully,
\* whatever body the response carried, handleQuestionAnswer with a
\* non-empty question passes validation and issues a request.
QuestionEnabledAfterTranscription ==
    [][(event.op = "transcriptionResolved" /\ Truthy(question)
          /\ event'.op = "handleQuestionAnswer")
         => /\ event'.alert = NoAlert
            /\ sent' = sent + 1]_vars

\* C10: a handler invocation that passes validation issues exactly one
\* request, and nothing else issues any (no retry after a failure).
OneRequestPerInvocation ==
    [][IF \/ (event'.op = "handleTranscription" /\ Truthy(selectedAudio))
          \/ (event'.op = "handleQuestionAnswer" /\ Truthy(summary) /\ Truthy(question))
       THEN /\ sent' = sent + 1
            /\ pending \subseteq pending'
            /\ Cardinality(pending' \ pending) = 1
       ELSE /\ sent' = sent
            /\ pending' \subseteq pending]_vars

\* Two requests were issued, the last one failed, and none is outstanding.
NoRetryAfterFailure ==
    /\ event.op = "answerRejected"
    /\ sent = 2
    /\ pending = {}

====
